---- MODULE Spec2Model ----
(***************************************************************************)
(* The /api/proxy-manifest endpoint of the IPTV player's server: one       *)
(* process per request, one step per stretch of the handler between two    *)
(* awaits.  Strings are sequences of one-character strings, so that trim,  *)
(* startsWith, includes, split, the URI="..." regular expression and       *)
(* encodeURIComponent are computed character by character.                 *)
(***************************************************************************)
EXTENDS Integers, Sequences, FiniteSets, TLC

VARIABLES req, pc, fetchLog, response, res, player

vars == <<req, pc, fetchLog, response, res, player>>

(***************************************************************************)
(* String primitives of JavaScript used by the handler.                    *)
(***************************************************************************)

\* String.prototype.startsWith
StartsWith(s, p) == Len(s) >= Len(p) /\ SubSeq(s, 1, Len(p)) = p

\* String.prototype.includes
Includes(s, sub) ==
    \E i \in 1..(Len(s) - Len(sub) + 1) : SubSeq(s, i, i + Len(sub) - 1) = sub

\* String.prototype.endsWith
EndsWith(s, p) == Len(s) >= Len(p) /\ SubSeq(s, Len(s) - Len(p) + 1, Len(s)) = p

\* The white space and line terminators that String.prototype.trim strips
\* (those of them that occur in the modelled alphabet).
WhiteSpace == {" ", "\t", "\r", "\n"}

\* String.prototype.trim
Trim(s) ==
    LET keep == {i \in 1..Len(s) : s[i] \notin WhiteSpace}
    IN  IF keep = {} THEN <<>>
        ELSE LET first == CHOOSE i \in keep : \A j \in keep : i <= j
                 last  == CHOOSE i \in keep : \A j \in keep : j <= i
             IN  SubSeq(s, first, last)

\* String.prototype.lastIndexOf for a one-character needle: the 0-based
\* index of its last occurrence, -1 when there is none.
LastIndexOf(s, c) ==
    LET at == {i \in 1..Len(s) : s[i] = c}
    IN  IF at = {} THEN -1
        ELSE (CHOOSE i \in at : \A j \in at : j <= i) - 1

\* String.prototype.substring(0, n)
Substring0(s, n) == SubSeq(s, 1, n)

\* String.prototype.split for a one-character separator.
RECURSIVE Split(_, _)
Split(s, sep) ==
    LET at == {i \in 1..Len(s) : s[i] = sep}
    IN  IF at = {} THEN <<s>>
        ELSE LET i == CHOOSE k \in at : \A j \in at : k <= j
             IN  <<SubSeq(s, 1, i - 1)>> \o Split(SubSeq(s, i + 1, Len(s)), sep)

\* Array.prototype.join for a one-character separator.
RECURSIVE Join(_, _)
Join(parts, sep) ==
    IF Len(parts) = 0 THEN <<>>
    ELSE IF Len(parts) = 1 THEN parts[1]
    ELSE parts[1] \o <<sep>> \o Join(Tail(parts), sep)

\* The characters encodeURIComponent leaves as they are.
Unreserved ==
    {"a","b","c","d","e","f","g","h","i","j","k","l","m","n","o","p","q","r",
     "s","t","u","v","w","x","y","z","A","B","C","D","E","F","G","H","I","J",
     "K","L","M","N","O","P","Q","R","S","T","U","V","W","X","Y","Z","0","1",
     "2","3","4","5","6","7","8","9","-","_",".","!","~","*","'","(",")"}

\* The percent escape of one character outside Unreserved.
PercentEscape(c) ==
    CASE c = " "  -> <<"%","2","0">>
      [] c = "\"" -> <<"%","2","2">>
      [] c = "#"  -> <<"%","2","3">>
      [] c = "%"  -> <<"%","2","5">>
      [] c = "&"  -> <<"%","2","6">>
      [] c = "+"  -> <<"%","2","B">>
      [] c = ","  -> <<"%","2","C">>
      [] c = "/"  -> <<"%","2","F">>
      [] c = ":"  -> <<"%","3","A">>
      [] c = ";"  -> <<"%","3","B">>
      [] c = "="  -> <<"%","3","D">>
      [] c = "?"  -> <<"%","3","F">>
      [] c = "@"  -> <<"%","4","0">>
      [] c = "\t" -> <<"%","0","9">>
      [] c = "\n" -> <<"%","0","A">>
      [] c = "\r" -> <<"%","0","D">>

\* encodeURIComponent
RECURSIVE encodeURIComponent(_)
encodeURIComponent(s) ==
    IF s = <<>> THEN <<>>
    ELSE (IF Head(s) \in Unreserved THEN <<Head(s)>> ELSE PercentEscape(Head(s)))
         \o encodeURIComponent(Tail(s))

(***************************************************************************)
(* new URL(url): the parts of the parsed target the handler reads.  The    *)
(* targets of the model are of the form scheme://host[/path][?query], with *)
(* nothing the URL parser would normalise (no port, no dot segment, no     *)
(* upper case in the host); anything else makes fetch and new URL throw.   *)
(***************************************************************************)

\* The index of the first character of s, from position from on, that is in
\* stops; Len(s) + 1 when there is none.
FirstOf(s, stops, from) ==
    LET at == {i \in from..Len(s) : s[i] \in stops}
    IN  IF at = {} THEN Len(s) + 1
        ELSE CHOOSE i \in at : \A j \in at : i <= j

SchemePrefix(url) ==
    IF StartsWith(url, <<"h","t","t","p",":","/","/">>) THEN <<"h","t","t","p",":","/","/">>
    ELSE IF StartsWith(url, <<"h","t","t","p","s",":","/","/">>) THEN <<"h","t","t","p","s",":","/","/">>
    ELSE <<>>

ValidURL(url) ==
    LET sp == SchemePrefix(url)
    IN  /\ sp # <<>>
        /\ FirstOf(url, {"/", "?", "#"}, Len(sp) + 1) > Len(sp) + 1

\* parsedUrl.origin
Origin(url) ==
    SubSeq(url, 1, FirstOf(url, {"/", "?", "#"}, Len(SchemePrefix(url)) + 1) - 1)

\* parsedUrl.pathname
Pathname(url) ==
    LET hostEnd == FirstOf(url, {"/", "?", "#"}, Len(SchemePrefix(url)) + 1)
        pathEnd == FirstOf(url, {"?", "#"}, hostEnd)
    IN  IF pathEnd = hostEnd THEN <<"/">>
        ELSE SubSeq(url, hostEnd, pathEnd - 1)

\* const baseUrl = parsedUrl.origin + parsedUrl.pathname.substring(0, lastIndexOf('/') + 1)
BaseUrl(url) ==
    Origin(url) \o Substring0(Pathname(url), LastIndexOf(Pathname(url), "/") + 1)

(***************************************************************************)
(* The rewriting of one manifest.                                          *)
(***************************************************************************)

ProxyPrefix == <<"/","a","p","i","/","p","r","o","x","y","-","m","a","n","i","f","e","s","t","?","u","r","l","=">>

UriOpen == <<"U","R","I","=","\"">>

\* absoluteAttrUrl: the resolution of a URI="..." attribute value p1.
AbsoluteAttrUrl(p1, url) ==
    IF ~StartsWith(p1, <<"h","t","t","p">>)
    THEN (IF StartsWith(p1, <<"/">>) THEN Origin(url) \o p1 ELSE BaseUrl(url) \o p1)
    ELSE p1

\* The callback of trimmed.replace: the replacement of one match.
ReplaceMatch(p1, url) ==
    UriOpen \o ProxyPrefix \o encodeURIComponent(AbsoluteAttrUrl(p1, url)) \o <<"\"">>

\* The length of the match of /URI="([^"]+)"/ that starts at position i of s,
\* 0 when there is none: URI=" , one or more characters other than a quote,
\* a quote.
MatchLen(s, i) ==
    IF ~StartsWith(SubSeq(s, i, Len(s)), UriOpen) THEN 0
    ELSE LET from  == i + Len(UriOpen)
             quote == FirstOf(s, {"\""}, from)
         IN  IF quote > Len(s) \/ quote = from THEN 0 ELSE quote - i + 1

\* trimmed.replace(/URI="([^"]+)"/g, callback), scanning from position i.
RECURSIVE ReplaceFrom(_, _, _)
ReplaceFrom(s, i, url) ==
    IF i > Len(s) THEN <<>>
    ELSE LET n == MatchLen(s, i)
         IN  IF n = 0 THEN <<s[i]>> \o ReplaceFrom(s, i + 1, url)
             ELSE ReplaceMatch(SubSeq(s, i + Len(UriOpen), i + n - 2), url)
                  \o ReplaceFrom(s, i + n, url)

\* Variant: the regular expression without its g flag replaces the first
\* match only.
ReplaceFirstOnly(s, url) ==
    LET at == {i \in 1..Len(s) : MatchLen(s, i) > 0}
    IN  IF at = {} THEN s
        ELSE LET i == CHOOSE k \in at : \A j \in at : k <= j
                 n == MatchLen(s, i)
             IN  SubSeq(s, 1, i - 1)
                 \o ReplaceMatch(SubSeq(s, i + Len(UriOpen), i + n - 2), url)
                 \o SubSeq(s, i + n, Len(s))

ReplaceURI(s, url) == ReplaceFrom(s, 1, url)

\* Variant: a tag line without URI=" is returned trimmed.
TagLineTrimmed(line, url) ==
    IF Includes(Trim(line), UriOpen) THEN ReplaceURI(Trim(line), url) ELSE Trim(line)

\* The branch of the map callback for blank lines and tag lines.
TagLine(line, url) ==
    IF Includes(Trim(line), UriOpen) THEN ReplaceURI(Trim(line), url) ELSE line

\* Variant: every media reference is resolved as a relative one.
AbsoluteUrlNoAbsoluteTest(trimmed, url) ==
    IF StartsWith(trimmed, <<"/">>) THEN Origin(url) \o trimmed
    ELSE BaseUrl(url) \o trimmed

\* Variant: a root-relative media reference is resolved against the
\* manifest's directory.
AbsoluteUrlRootAgainstBase(trimmed, url) ==
    IF ~StartsWith(trimmed, <<"h","t","t","p">>) THEN BaseUrl(url) \o trimmed ELSE trimmed

\* absoluteUrl: the resolution of a media reference line.
AbsoluteUrl(trimmed, url) ==
    IF ~StartsWith(trimmed, <<"h","t","t","p">>)
    THEN (IF StartsWith(trimmed, <<"/">>) THEN Origin(url) \o trimmed
          ELSE BaseUrl(url) \o trimmed)
    ELSE trimmed

\* Variant: an absolute media reference is left as it is, not wrapped.
MediaLineAbsoluteKept(line, url) ==
    IF StartsWith(Trim(line), <<"h","t","t","p">>) THEN Trim(line)
    ELSE ProxyPrefix \o encodeURIComponent(AbsoluteUrl(Trim(line), url))

\* The branch of the map callback for media reference lines.
MediaLine(line, url) ==
    ProxyPrefix \o encodeURIComponent(AbsoluteUrl(Trim(line), url))

\* The callback of lines.map.
RewriteLine(line, url) ==
    IF Trim(line) = <<>> \/ StartsWith(Trim(line), <<"#">>)
    THEN TagLine(line, url)
    ELSE MediaLine(line, url)

\* text.split('\n').map(...).join('\n')
RewriteManifest(text, url) ==
    LET lines == Split(text, "\n")
    IN  Join([i \in 1..Len(lines) |-> RewriteLine(lines[i], url)], "\n")

(***************************************************************************)
(* The inputs of the model: requests, upstream answers, manifest lines.    *)
(***************************************************************************)

\* The longest manifest the upstream serves, in lines.
MaxLines == 2

\* The request in flight when the handler is studied on its own.
Handlers == {1}

\* The requests in flight when two of them are served at the same time.
ConcurrentHandlers == {1, 2}

\* Target URLs: a manifest in a directory, one at the root, one with a query
\* string after .m3u8, two that do not name a manifest (one without a path),
\* and one that is no absolute URL.
Targets ==
    { <<"h","t","t","p","s",":","/","/","h","/","p","/","l",".","m","3","u","8">>,
      <<"h","t","t","p",":","/","/","h","/","l",".","m","3","u","8">>,
      <<"h","t","t","p","s",":","/","/","h","/","p","/","l",".","m","3","u","8","?","t","=","a","/","b">>,
      <<"h","t","t","p","s",":","/","/","h","/","p","/","q","/","x">>,
      <<"h","t","t","p","s",":","/","/","h">>,
      <<"h","/","l",".","m","3","u","8">> }

\* req.query.url (hasUrl is FALSE when the parameter is missing) and
\* req.headers.range ("" when the header is missing).
RequestInputs ==
    [hasUrl : {TRUE}, url : Targets \cup {<<>>}, range : {"", "bytes=0-1023"}]
    \cup [hasUrl : {FALSE}, url : {<<>>}, range : {"", "bytes=0-1023"}]

\* The requests served at the same time: a manifest, a segment asked with
\* Range, a target that is no absolute URL, an empty url parameter.
ConcurrentRequests ==
    { [hasUrl |-> TRUE, url |-> <<"h","t","t","p","s",":","/","/","h","/","p","/","l",".","m","3","u","8">>, range |-> ""],
      [hasUrl |-> TRUE, url |-> <<"h","t","t","p","s",":","/","/","h","/","p","/","q","/","x">>, range |-> "bytes=0-1023"],
      [hasUrl |-> TRUE, url |-> <<"h","/","l",".","m","3","u","8">>, range |-> ""],
      [hasUrl |-> TRUE, url |-> <<>>, range |-> ""] }

\* The statuses the upstream answers with.
Statuses == {200, 203, 206, 300, 403, 404, 500}

\* Upstream Content-Type values; <<>> when the header is missing.
ContentTypes ==
    { <<"a","p","p","l","i","c","a","t","i","o","n","/","v","n","d",".","a","p","p","l","e",".","m","p","e","g","u","r","l">>,
      <<"a","p","p","l","i","c","a","t","i","o","n","/","x","-","m","p","e","g","U","R","L">>,
      <<"v","i","d","e","o","/","m","p","2","t">>,
      <<>> }

\* Upstream Content-Range, Accept-Ranges and Content-Length; "" when missing.
RangeHeaders ==
    { [contentRange |-> "", acceptRanges |-> "", contentLength |-> ""],
      [contentRange |-> "", acceptRanges |-> "bytes", contentLength |-> "5000"],
      [contentRange |-> "bytes 0-1023/5000", acceptRanges |-> "bytes",
       contentLength |-> "1024"] }

\* Manifest lines: media references (relative, in a sub-directory and
\* wrapped in white space, root relative, absolute, a relative name that
\* begins with http), blank lines and a comment, tags with URI="..."
\* attributes (one, two, wrapped in white space, empty).
MediaLines ==
    { <<"s",".","t","s">>,
      <<" ","d","/","s",".","t","s","\r">>,
      <<"/","r","/","s",".","t","s">>,
      <<"h","t","t","p",":","/","/","o","/","x",".","t","s">>,
      <<"h","t","t","p","s",":","/","/","o","/","x",".","t","s">>,
      <<"h","t","t","p","d","/","s",".","t","s">> }

PlainLines ==
    { <<>>,
      <<"\r">>,
      <<" ","#","M","\r">> }

UriTagLines ==
    { <<"#","K",":","M","=","A",",","U","R","I","=","\"","k",".","b","\"">>,
      <<"#","X",":","U","R","I","=","\"","/","b","\"",",","U","R","I","=","\"","a","\"">>,
      <<" ","#","K",":","U","R","I","=","\"","h","t","t","p","s",":","/","/","o","/","k","\"","\r">>,
      <<"#","X",":","U","R","I","=","\"","\"">> }

ManifestLines == MediaLines \cup PlainLines \cup UriTagLines

RECURSIVE LineSeqs(_)
LineSeqs(n) ==
    IF n = 0 THEN {<<>>}
    ELSE LET shorter == LineSeqs(n - 1)
         IN  shorter \cup
             {Append(ls, l) : ls \in {x \in shorter : Len(x) = n - 1}, l \in ManifestLines}

\* Manifests of lines that are rarer: a protocol-relative reference, a
\* reference with a query, a lower-case uri attribute, text after the
\* attribute, a value that begins with http, an attribute without its
\* closing quote, a playlist with CRLF line ends.
OtherManifests ==
    { <<"#","M","\n","/","/","c","/","s",".","t","s","\n","v",".","m","3","u","8","?","k","=","1">>,
      <<"#","X",":","u","r","i","=","\"","a","\"","\n","#","K",":","U","R","I","=","\"","/","k","\"",",","I","V","=","1","\n","#","X",":","U","R","I","=","\"","h","t","t","p","k","\"">>,
      <<" ","#","X",":","U","R","I","=","\"","a","\n","\t","/","r","/","s",".","t","s"," ","\n","#","X",":","U","R","I","=","\"","U","R","I","=","\"","x","\"">>,
      <<"#","M","\r","\n","#","K",":","U","R","I","=","\"","k","\"","\r","\n","h","t","t","p","s",":","/","/","o","/","x",".","t","s","\r","\n">> }

\* The manifest texts: every text of up to MaxLines lines of ManifestLines,
\* and OtherManifests.
Manifests ==
    {Join(ls, "\n") : ls \in LineSeqs(MaxLines) \ {<<>>}} \cup OtherManifests

\* A few manifests for the answers that carry range headers or come without
\* the HLS content type.
FewManifests ==
    { <<"#","M","\n","s",".","t","s">>,
      <<"#","M","\r","\n","#","K",":","U","R","I","=","\"","k","\"","\r","\n","/","r","/","s",".","t","s","\r","\n">> }

\* Upstream bodies that are no manifests.
Segments == {"bytes-1", "bytes-2"}

\* error.message of a rejected fetch and of a failed body read.
FetchFailure == "fetch failed"
InvalidUrlFailure == "Failed to parse URL"
BodyFailure == "terminated"

\* The answers of the upstream while two requests are served: success or
\* 404, a manifest's or a segment's Content-Type, with or without the range
\* headers.
FewAnswers ==
    [arrived : {TRUE}, status : {200, 404},
     contentType : {<<"a","p","p","l","i","c","a","t","i","o","n","/","v","n","d",".","a","p","p","l","e",".","m","p","e","g","u","r","l">>, <<"v","i","d","e","o","/","m","p","2","t">>},
     contentRange : {""}, acceptRanges : {""}, contentLength : {""},
     reading : {"none"}, text : {<<>>}, bytes : {""}]
    \cup
    [arrived : {TRUE}, status : {200, 404},
     contentType : {<<"a","p","p","l","i","c","a","t","i","o","n","/","v","n","d",".","a","p","p","l","e",".","m","p","e","g","u","r","l">>, <<"v","i","d","e","o","/","m","p","2","t">>},
     contentRange : {"bytes 0-1023/5000"}, acceptRanges : {"bytes"},
     contentLength : {"1024"},
     reading : {"none"}, text : {<<>>}, bytes : {""}]

(***************************************************************************)
(* The handler of GET /api/proxy-manifest.                                 *)
(***************************************************************************)

NoResponse ==
    [arrived |-> FALSE, status |-> 0, contentType |-> <<>>, contentRange |-> "",
     acceptRanges |-> "", contentLength |-> "", reading |-> "none",
     text |-> <<>>, bytes |-> ""]

\* The upstream's status line and headers, as fetch resolves with them: all
\* combinations for a request served on its own, FewAnswers when two
\* requests are served.
Answers ==
    IF Cardinality(DOMAIN pc) > 1 THEN FewAnswers
    ELSE {[NoResponse EXCEPT !.arrived = TRUE,
                             !.status = status,
                             !.contentType = contentType,
                             !.contentRange = rh.contentRange,
                             !.acceptRanges = rh.acceptRanges,
                             !.contentLength = rh.contentLength] :
              status \in Statuses, contentType \in ContentTypes, rh \in RangeHeaders}

NoBody == [kind |-> "none", text |-> <<>>, data |-> ""]

Message(m) == [kind |-> "message", text |-> <<>>, data |-> m]

\* A response object before the handler touches it: status 200, no header
\* set, nothing sent.
FreshRes ==
    [status |-> 200, contentType |-> <<>>, contentRange |-> "",
     acceptRanges |-> "", contentLength |-> "", allowOrigin |-> "",
     cacheControl |-> "", body |-> NoBody, sends |-> 0]

\* res.status(code).send(body)
StatusSend(r, code, body) ==
    [r EXCEPT !.status = code, !.body = body, !.sends = @ + 1]

\* res.send(body)
Send(r, body) == [r EXCEPT !.body = body, !.sends = @ + 1]

\* Variant: only a missing parameter is refused, an empty one is not.
UrlUndefined(q) == ~q.hasUrl

\* if (!url)
UrlMissing(q) == ~q.hasUrl \/ q.url = <<>>

\* response.ok
ResponseOk(status) == status >= 200 /\ status <= 299

\* Variant: only the statuses from 400 on are failures.
UpstreamFailedFrom400(status) == status >= 400

\* if (!response.ok && response.status !== 206)
UpstreamFailed(status) == ~ResponseOk(status) /\ status # 206

\* Variant: the target must end with .m3u8, not merely contain it.
IsManifestEndsWith(contentType, url) ==
    \/ Includes(contentType, <<"m","p","e","g","u","r","l">>)
    \/ EndsWith(url, <<".","m","3","u","8">>)

\* contentType.includes("mpegurl") || contentType.includes("apple.mpegurl")
\*   || url.includes(".m3u8")
IsManifest(contentType, url) ==
    \/ Includes(contentType, <<"m","p","e","g","u","r","l">>)
    \/ Includes(contentType, <<"a","p","p","l","e",".","m","p","e","g","u","r","l">>)
    \/ Includes(url, <<".","m","3","u","8">>)

\* `Target returned ${response.status}`
TargetReturned(status) == "Target returned " \o ToString(status)

\* Variant: Content-Range and Accept-Ranges are passed through, the
\* Content-Length is left to the framework.
PassThroughNoLength(r, up) ==
    [r EXCEPT !.contentRange = IF up.contentRange # "" THEN up.contentRange ELSE @,
              !.acceptRanges = IF up.acceptRanges # "" THEN up.acceptRanges ELSE @]

\* The pass-through of Content-Range, Accept-Ranges and Content-Length:
\* each is set when the upstream value is not empty.
PassThrough(r, up) ==
    [r EXCEPT !.contentRange  = IF up.contentRange # "" THEN up.contentRange ELSE @,
              !.acceptRanges  = IF up.acceptRanges # "" THEN up.acceptRanges ELSE @,
              !.contentLength = IF up.contentLength # "" THEN up.contentLength ELSE @]

\* The catch block: res.status(500).send(error.message)
Catch(r, message) == StatusSend(r, 500, Message(message))

\* No player is part of the runs of the server.
NoPlayer == [phase |-> "none"]

Init ==
    /\ req \in [Handlers -> RequestInputs]
    /\ pc = [h \in Handlers |-> "start"]
    /\ fetchLog = [h \in Handlers |-> <<>>]
    /\ response = [h \in Handlers |-> NoResponse]
    /\ res = [h \in Handlers |-> FreshRes]
    /\ player = NoPlayer

\* The url parameter is missing or empty: 400, and the handler returns.
UrlRequired(h) ==
    /\ pc[h] = "start"
    /\ UrlMissing(req[h])
    /\ res' = [res EXCEPT ![h] = StatusSend(@, 400, Message("URL required"))]
    /\ pc' = [pc EXCEPT ![h] = "done"]
    /\ UNCHANGED <<req, fetchLog, response, player>>

\* fetch(url, fetchOptions) is called, the Range header of the request added
\* to the options when there is one; the handler awaits the answer.
Fetch(h) ==
    /\ pc[h] = "start"
    /\ ~UrlMissing(req[h])
    /\ fetchLog' = [fetchLog EXCEPT ![h] =
           Append(@, [url |-> req[h].url,
                      range |-> IF req[h].range # "" THEN req[h].range ELSE ""])]
    /\ pc' = [pc EXCEPT ![h] = "fetch"]
    /\ UNCHANGED <<req, response, res, player>>

\* Variant: a rejected fetch is retried once before the handler gives up.
FetchRetriedOnce(h) ==
    /\ pc[h] = "fetch"
    /\ IF Len(fetchLog[h]) = 1
       THEN /\ fetchLog' = [fetchLog EXCEPT ![h] = Append(@, @[1])]
            /\ UNCHANGED <<req, pc, response, res, player>>
       ELSE /\ res' = [res EXCEPT ![h] =
                   Catch(@, IF ValidURL(req[h].url) THEN FetchFailure ELSE InvalidUrlFailure)]
            /\ pc' = [pc EXCEPT ![h] = "done"]
            /\ UNCHANGED <<req, fetchLog, response, player>>

\* fetch rejects: the URL does not parse, or the network fails.
FetchRejected(h) ==
    /\ pc[h] = "fetch"
    /\ res' = [res EXCEPT ![h] =
           Catch(@, IF ValidURL(req[h].url) THEN FetchFailure ELSE InvalidUrlFailure)]
    /\ pc' = [pc EXCEPT ![h] = "done"]
    /\ UNCHANGED <<req, fetchLog, response, player>>

\* The state of the handler after the upstream's status line and headers up
\* arrived, up to its next await or its return.
AfterFetch(h, up) ==
    IF UpstreamFailed(up.status)
    THEN /\ res' = [res EXCEPT ![h] = StatusSend(@, up.status, Message(TargetReturned(up.status)))]
         /\ response' = [response EXCEPT ![h] = up]
         /\ pc' = [pc EXCEPT ![h] = "done"]
    ELSE IF IsManifest(up.contentType, req[h].url)
    THEN /\ res' = [res EXCEPT ![h] = PassThrough(@, up)]
         /\ response' = [response EXCEPT ![h] = [up EXCEPT !.reading = "text"]]
         /\ pc' = [pc EXCEPT ![h] = "text"]
    ELSE /\ res' = [res EXCEPT ![h] =
                [PassThrough(@, up) EXCEPT !.contentType = up.contentType,
                                           !.allowOrigin = "*",
                                           !.cacheControl = "public, max-age=3600"]]
         /\ response' = [response EXCEPT ![h] = [up EXCEPT !.reading = "buffer"]]
         /\ pc' = [pc EXCEPT ![h] = "buffer"]

\* fetch resolves with the upstream's status and headers.
FetchResolved(h) ==
    /\ pc[h] = "fetch"
    /\ ValidURL(req[h].url)
    /\ \E up \in Answers : AfterFetch(h, up)
    /\ UNCHANGED <<req, fetchLog, player>>

\* The manifests the upstream serves to handler h: all of Manifests for a
\* 200 answer of the HLS content type, without range headers, to a request
\* without Range that is served on its own; a few otherwise.
ManifestsFor(h) ==
    IF /\ Cardinality(DOMAIN pc) = 1
       /\ req[h].range = ""
       /\ response[h].status = 200
       /\ response[h].contentRange = "" /\ response[h].acceptRanges = ""
       /\ response[h].contentType = <<"a","p","p","l","i","c","a","t","i","o","n","/","v","n","d",".","a","p","p","l","e",".","m","p","e","g","u","r","l">>
    THEN Manifests
    ELSE FewManifests

\* response.text() resolves: the manifest is rewritten and sent.
TextResolved(h) ==
    /\ pc[h] = "text"
    /\ \E text \in ManifestsFor(h) :
           /\ response' = [response EXCEPT ![h].text = text]
           /\ res' = [res EXCEPT ![h] =
                  Send([@ EXCEPT !.contentType = <<"a","p","p","l","i","c","a","t","i","o","n","/","v","n","d",".","a","p","p","l","e",".","m","p","e","g","u","r","l">>,
                                 !.allowOrigin = "*"],
                       [kind |-> "text", text |-> RewriteManifest(text, req[h].url),
                        data |-> ""])]
    /\ pc' = [pc EXCEPT ![h] = "done"]
    /\ UNCHANGED <<req, fetchLog, player>>

\* response.text() rejects.
TextRejected(h) ==
    /\ pc[h] = "text"
    /\ res' = [res EXCEPT ![h] = Catch(@, BodyFailure)]
    /\ pc' = [pc EXCEPT ![h] = "done"]
    /\ UNCHANGED <<req, fetchLog, response, player>>

\* response.arrayBuffer() resolves: the bytes are sent as they are.
BufferResolved(h) ==
    /\ pc[h] = "buffer"
    /\ \E bytes \in Segments :
           /\ response' = [response EXCEPT ![h].bytes = bytes]
           /\ res' = [res EXCEPT ![h] =
                  Send(@, [kind |-> "bytes", text |-> <<>>, data |-> bytes])]
    /\ pc' = [pc EXCEPT ![h] = "done"]
    /\ UNCHANGED <<req, fetchLog, player>>

\* response.arrayBuffer() rejects.
BufferRejected(h) ==
    /\ pc[h] = "buffer"
    /\ res' = [res EXCEPT ![h] = Catch(@, BodyFailure)]
    /\ pc' = [pc EXCEPT ![h] = "done"]
    /\ UNCHANGED <<req, fetchLog, response, player>>

\* One step of the handler of request h.
HandlerStep(h) ==
    \/ UrlRequired(h)
    \/ Fetch(h)
    \/ FetchRejected(h)
    \/ FetchResolved(h)
    \/ TextRejected(h)
    \/ TextResolved(h)
    \/ BufferRejected(h)
    \/ BufferResolved(h)

Next == \E h \in Handlers : HandlerStep(h)

Spec == Init /\ [][Next]_vars

\* Two requests are served at the same time, their steps interleaved in any
\* order.  The event loop runs every continuation that is ready and fetch
\* and the body reads settle (undici ends a silent connection with an
\* error), so no handler waits for ever.
InitConcurrent ==
    /\ req \in [ConcurrentHandlers -> ConcurrentRequests]
    /\ pc = [h \in ConcurrentHandlers |-> "start"]
    /\ fetchLog = [h \in ConcurrentHandlers |-> <<>>]
    /\ response = [h \in ConcurrentHandlers |-> NoResponse]
    /\ res = [h \in ConcurrentHandlers |-> FreshRes]
    /\ player = NoPlayer

NextConcurrent == \E h \in ConcurrentHandlers : HandlerStep(h)

SpecConcurrent ==
    /\ InitConcurrent
    /\ [][NextConcurrent]_vars
    /\ \A h \in ConcurrentHandlers : WF_vars(HandlerStep(h))

(***************************************************************************)
(* The VideoPlayer component.  One step per piece of code React runs on    *)
(* its own: the render of the function body, the cleanup of the load       *)
(* effect, the body of the reset effect, the body of the load effect, the  *)
(* click handlers and the error callbacks of the stream.  A set-state call *)
(* queues its value; the queue is applied by the next render, so an effect *)
(* reads the props and the state of the render it belongs to.  Of the      *)
(* state of the component useProxy and error are modelled; autoPlay keeps  *)
(* its value.                                                              *)
(***************************************************************************)

\* entry is null.
NoEntry == <<>>

\* The url of the channels of the playlist: one names a manifest, one does
\* not.
Channels ==
    { <<"h","t","t","p","s",":","/","/","h","/","p","/","l",".","m","3","u","8">>,
      <<"h","t","t","p","s",":","/","/","h","/","p","/","q","/","x">> }

\* No stream is loaded.
NoLoad == [url |-> <<>>, via |-> "none"]

\* Nothing was loaded yet.
NeverLoaded == [entry |-> NoEntry, url |-> <<>>, forceProxy |-> FALSE, afterPress |-> FALSE]

\* The dependencies of the reset effect, [entry], and of the load effect,
\* [entry, useProxy, autoPlay], in the render with view v; the first
\* component is FALSE as long as the effect has not run.
ResetDeps(v) == <<TRUE, v.entry>>
LoadDeps(v) == <<TRUE, v.entry, v.useProxy>>
ResetNotRun == <<FALSE, NoEntry>>
LoadNotRun == <<FALSE, NoEntry, FALSE>>

\* The value of a state after the queued set-state calls.
Applied(value, queue) == IF queue = <<>> THEN value ELSE queue[Len(queue)]

\* useProxy as the load effect reads it: the state of its render.
LoadUseProxy(p) == p.view.useProxy

\* const streamUrl = useProxy ? `/api/proxy-manifest?url=${encodeURIComponent(entry.url)}` : entry.url
StreamUrl(useProxy, url) ==
    IF useProxy THEN ProxyPrefix \o encodeURIComponent(url) ELSE url

\* Hls.isSupported() && (entry.url.includes('.m3u8') || useProxy)
ViaHls(hlsSupported, useProxy, url) ==
    hlsSupported /\ (Includes(url, <<".","m","3","u","8">>) \/ useProxy)

\* The component mounts: useState(forceProxy), no error, no effect has run.
InitPlayer ==
    /\ req = <<>>
    /\ pc = <<>>
    /\ fetchLog = <<>>
    /\ response = <<>>
    /\ res = <<>>
    /\ \E e \in Channels \cup {NoEntry}, fp \in BOOLEAN, hs \in BOOLEAN :
           player = [phase |-> "cleanup",
                     entry |-> e, forceProxy |-> fp, hlsSupported |-> hs,
                     useProxy |-> fp, error |-> FALSE,
                     useProxyQueue |-> <<>>, errorQueue |-> <<>>,
                     view |-> [entry |-> e, forceProxy |-> fp, useProxy |-> fp,
                               error |-> FALSE],
                     resetDeps |-> ResetNotRun, loadDeps |-> LoadNotRun,
                     loaded |-> NoLoad,
                     lastLoad |-> NeverLoaded, pressed |-> FALSE]

\* The parent renders the player with another entry or another forceProxy.
PropsChange(e, fp) ==
    /\ player.phase = "idle"
    /\ <<e, fp>> # <<player.entry, player.forceProxy>>
    /\ player' = [player EXCEPT !.entry = e, !.forceProxy = fp,
                                !.pressed = IF e # player.entry THEN FALSE ELSE @,
                                !.phase = "render"]
    /\ UNCHANGED <<req, pc, fetchLog, response, res>>

\* The function body runs: the queued set-state calls are applied, and the
\* effects and handlers of this render see these props and this state.
Render ==
    /\ player.phase = "render"
    /\ LET up == Applied(player.useProxy, player.useProxyQueue)
           er == Applied(player.error, player.errorQueue)
       IN  player' = [player EXCEPT !.useProxy = up, !.error = er,
                                    !.useProxyQueue = <<>>, !.errorQueue = <<>>,
                                    !.view = [entry |-> player.entry,
                                              forceProxy |-> player.forceProxy,
                                              useProxy |-> up, error |-> er],
                                    !.phase = "cleanup"]
    /\ UNCHANGED <<req, pc, fetchLog, response, res>>

\* The cleanup of the load effect, run when [entry, useProxy, autoPlay]
\* changed and the effect had got past its early return: the stream is
\* destroyed and the src removed.
LoadCleanup ==
    /\ player.phase = "cleanup"
    /\ player' = [player EXCEPT
           !.loaded = IF player.loadDeps # LoadDeps(player.view)
                      THEN NoLoad ELSE @,
           !.phase = "reset"]
    /\ UNCHANGED <<req, pc, fetchLog, response, res>>

\* The reset effect, run when [entry] changed: setError(null),
\* setUseProxy(forceProxy).
ResetEffect ==
    /\ player.phase = "reset"
    /\ player' =
           IF player.resetDeps # ResetDeps(player.view)
           THEN [player EXCEPT !.errorQueue = Append(@, FALSE),
                               !.useProxyQueue = Append(@, player.view.forceProxy),
                               !.resetDeps = ResetDeps(player.view),
                               !.phase = "load"]
           ELSE [player EXCEPT !.phase = "load"]
    /\ UNCHANGED <<req, pc, fetchLog, response, res>>

\* The player after the body of the load effect, when it runs.
Loading(p) ==
    IF p.view.entry = NoEntry
    THEN [p EXCEPT !.loadDeps = LoadDeps(p.view)]
    ELSE LET streamUrl == StreamUrl(LoadUseProxy(p), p.view.entry)
         IN  [p EXCEPT !.loadDeps = LoadDeps(p.view),
                       !.errorQueue = Append(@, FALSE),
                       !.loaded = [url |-> streamUrl,
                                   via |-> IF ViaHls(p.hlsSupported, LoadUseProxy(p), p.view.entry)
                                           THEN "hls" ELSE "src"],
                       !.lastLoad = [entry |-> p.view.entry, url |-> streamUrl,
                                     forceProxy |-> p.view.forceProxy,
                                     afterPress |-> p.pressed]]

\* The load effect, run when [entry, useProxy, autoPlay] changed:
\* hls.loadSource(streamUrl) or video.src = streamUrl.  A render follows
\* when set-state calls are queued.
LoadEffect ==
    /\ player.phase = "load"
    /\ LET p == IF player.loadDeps # LoadDeps(player.view)
                THEN Loading(player) ELSE player
       IN  player' = [p EXCEPT !.phase =
                          IF p.useProxyQueue # <<>> \/ p.errorQueue # <<>>
                          THEN "render" ELSE "idle"]
    /\ UNCHANGED <<req, pc, fetchLog, response, res>>

\* A fatal error of hls.js, or video.play() rejects: setError(message).
StreamError ==
    /\ player.phase = "idle"
    /\ player.loaded # NoLoad
    /\ ~player.view.error
    /\ player' = [player EXCEPT !.errorQueue = Append(@, TRUE), !.phase = "render"]
    /\ UNCHANGED <<req, pc, fetchLog, response, res>>

\* The button 'Try with Proxy', shown over an error while useProxy is false.
TryWithProxy ==
    /\ player.phase = "idle"
    /\ player.view.entry # NoEntry /\ player.view.error /\ ~player.view.useProxy
    /\ player' = [player EXCEPT !.errorQueue = Append(@, FALSE),
                                !.useProxyQueue = Append(@, TRUE),
                                !.pressed = TRUE,
                                !.phase = "render"]
    /\ UNCHANGED <<req, pc, fetchLog, response, res>>

\* The button 'Retry Original', shown over an error.
RetryOriginal ==
    /\ player.phase = "idle"
    /\ player.view.entry # NoEntry /\ player.view.error
    /\ player' = [player EXCEPT !.errorQueue = Append(@, FALSE),
                                !.useProxyQueue = Append(@, FALSE),
                                !.pressed = TRUE,
                                !.phase = "render"]
    /\ UNCHANGED <<req, pc, fetchLog, response, res>>

NextPlayer ==
    \/ \E e \in Channels \cup {NoEntry}, fp \in BOOLEAN : PropsChange(e, fp)
    \/ Render
    \/ LoadCleanup
    \/ ResetEffect
    \/ LoadEffect
    \/ StreamError
    \/ TryWithProxy
    \/ RetryOriginal

SpecPlayer == InitPlayer /\ [][NextPlayer]_vars

(***************************************************************************)
(* Vocabulary of the properties.                                           *)
(***************************************************************************)

Done(h) == pc[h] = "done"

\* The handler sent a rewritten manifest.
ManifestSent(h) == Done(h) /\ response[h].reading = "text" /\ res[h].body.kind = "text"

\* The handler sent the upstream body as bytes.
BinarySent(h) == Done(h) /\ response[h].reading = "buffer" /\ res[h].body.kind = "bytes"

\* The lines of the upstream manifest and of the body sent.
InLines(h) == Split(response[h].text, "\n")
OutLines(h) == Split(res[h].body.text, "\n")

IsBlank(l) == Trim(l) = <<>>
IsTag(l) == StartsWith(Trim(l), <<"#">>)
IsMedia(l) == ~IsBlank(l) /\ ~IsTag(l)
IsAbsolute(ref) == StartsWith(ref, <<"h","t","t","p",":","/","/">>) \/ StartsWith(ref, <<"h","t","t","p","s",":","/","/">>)
IsRootRelative(ref) == StartsWith(ref, <<"/">>)
ProxyUrl(absolute) == ProxyPrefix \o encodeURIComponent(absolute)

\* The value of the attribute URI="value" that begins at position i of s:
\* one or more characters other than a quote, between URI=" and a quote.
\* <<>> when no such attribute begins at i.
UriValueAt(s, i) ==
    LET from == i + Len(UriOpen)
        ends == {j \in from + 1..Len(s) :
                    /\ s[j] = "\""
                    /\ \A k \in from..j - 1 : s[k] # "\""}
    IN  IF i + Len(UriOpen) - 1 <= Len(s) /\ SubSeq(s, i, i + Len(UriOpen) - 1) = UriOpen
           /\ ends # {}
        THEN SubSeq(s, from, (CHOOSE j \in ends : TRUE) - 1)
        ELSE <<>>

\* The positions of the URI="value" attributes of s, left to right.
RECURSIVE AttrsFrom(_, _)
AttrsFrom(s, i) ==
    IF i > Len(s) THEN <<>>
    ELSE IF UriValueAt(s, i) = <<>> THEN AttrsFrom(s, i + 1)
    ELSE <<i>> \o AttrsFrom(s, i + Len(UriOpen) + Len(UriValueAt(s, i)) + 1)

Attrs(s) == AttrsFrom(s, 1)

\* The value of the k-th URI="value" attribute of s.
AttrValue(s, k) == UriValueAt(s, Attrs(s)[k])

\* s without the values of its URI="value" attributes: the text around them.
RECURSIVE OutsideFrom(_, _)
OutsideFrom(s, i) ==
    IF i > Len(s) THEN <<>>
    ELSE IF UriValueAt(s, i) = <<>> THEN <<s[i]>> \o OutsideFrom(s, i + 1)
    ELSE UriOpen \o <<"\"">> \o OutsideFrom(s, i + Len(UriOpen) + Len(UriValueAt(s, i)) + 1)

Outside(s) == OutsideFrom(s, 1)

(***************************************************************************)
(* Properties of the rewriting.                                            *)
(***************************************************************************)

\* C1, as stated: in a rewritten manifest every output line that is not blank
\* and does not start with '#' begins with /api/proxy-manifest?url= , and
\* every non-empty URI="..." value of a tag line does.
C1_AsStated ==
    \A h \in Handlers : ManifestSent(h) =>
        LET outs == OutLines(h) IN
        \A i \in 1..Len(outs) :
            LET l == outs[i]
            IN  /\ (~IsBlank(l) /\ ~StartsWith(l, <<"#">>)) => StartsWith(l, ProxyPrefix)
                /\ StartsWith(l, <<"#">>) =>
                       \A k \in 1..Len(l) :
                           UriValueAt(l, k) # <<>> => StartsWith(UriValueAt(l, k), ProxyPrefix)

\* C1, amended: in a rewritten manifest every output line that, once trimmed,
\* is not empty and does not start with '#' begins with
\* /api/proxy-manifest?url= (also when the input line was an absolute URL),
\* and every non-empty URI="..." value of a line that starts with '#' once
\* trimmed begins with it too.
C1_SubResourcesProxied ==
    \A h \in Handlers : ManifestSent(h) =>
        LET ins == InLines(h)
            outs == OutLines(h) IN
        /\ Len(outs) = Len(ins)
        /\ \A i \in 1..Len(outs) :
               LET l == outs[i]
               IN  /\ IsMedia(l) => StartsWith(l, ProxyPrefix)
                   /\ IsMedia(ins[i]) => StartsWith(l, ProxyPrefix)
                   /\ IsTag(l) =>
                          \A k \in 1..Len(l) :
                              UriValueAt(l, k) # <<>> =>
                                  StartsWith(UriValueAt(l, k), ProxyPrefix)

\* A manifest with an absolute media line and a tag with an absolute URI was
\* rewritten, both now behind the proxy.
C1_Witness ==
    \E h \in Handlers :
        /\ ManifestSent(h)
        /\ \E i, j \in 1..Len(InLines(h)) :
               /\ IsMedia(InLines(h)[i]) /\ IsAbsolute(Trim(InLines(h)[i]))
               /\ StartsWith(OutLines(h)[i], ProxyPrefix)
               /\ IsTag(InLines(h)[j]) /\ Attrs(InLines(h)[j]) # <<>>
               /\ IsAbsolute(AttrValue(InLines(h)[j], 1))
               /\ StartsWith(AttrValue(OutLines(h)[j], 1), ProxyPrefix)

\* C2, as stated: a relative media reference r (not blank, no tag, no
\* absolute URL, not beginning with '/') of a manifest fetched from T is
\* rewritten to /api/proxy-manifest?url= followed by the percent-encoding of
\* baseDir(T) + r.
C2_RelativeAgainstBaseDir ==
    \A h \in Handlers : ManifestSent(h) =>
        LET ins == InLines(h)
            outs == OutLines(h) IN
        \A i \in 1..Len(ins) :
            LET r == Trim(ins[i])
            IN  (IsMedia(r) /\ ~IsAbsolute(r) /\ ~IsRootRelative(r)) =>
                    /\ i <= Len(outs)
                    /\ outs[i] = ProxyUrl(BaseUrl(req[h].url) \o r)

\* C3: an absolute reference (http:// or https://), as a media line or as a
\* URI= value, is wrapped verbatim: /api/proxy-manifest?url= and the
\* percent-encoding of the reference itself.
C3_AbsoluteVerbatim ==
    \A h \in Handlers : ManifestSent(h) =>
        LET ins == InLines(h)
            outs == OutLines(h) IN
        \A i \in 1..Len(ins) :
            LET r == Trim(ins[i])
                o == outs[i]
                ar == Attrs(r)
                ao == Attrs(o)
            IN  /\ (IsMedia(r) /\ IsAbsolute(r)) => o = ProxyUrl(r)
                /\ r = <<"h","t","t","p",":","/","/","o","/","x",".","t","s">> =>
                       o = <<"/","a","p","i","/","p","r","o","x","y","-","m","a","n","i","f","e","s","t","?","u","r","l","=","h","t","t","p","%","3","A","%","2","F","%","2","F","o","%","2","F","x",".","t","s">>
                /\ IsTag(r) =>
                       \A k \in 1..Len(ar) :
                           IsAbsolute(UriValueAt(r, ar[k])) =>
                               /\ k <= Len(ao)
                               /\ UriValueAt(o, ao[k]) = ProxyUrl(UriValueAt(r, ar[k]))

\* Absolute references were rewritten, one as a media line, one as a URI=
\* value.
C3_Witness ==
    \E h \in Handlers :
        /\ ManifestSent(h)
        /\ \E i, j \in 1..Len(InLines(h)) :
               /\ IsMedia(InLines(h)[i]) /\ IsAbsolute(Trim(InLines(h)[i]))
               /\ IsTag(InLines(h)[j]) /\ Attrs(Trim(InLines(h)[j])) # <<>>
               /\ IsAbsolute(AttrValue(Trim(InLines(h)[j]), 1))
               /\ AttrValue(OutLines(h)[j], 1) = ProxyUrl(AttrValue(Trim(InLines(h)[j]), 1))

\* C4: a root-relative reference (beginning with '/'), as a media line or as
\* a URI= value, resolves to the target's origin followed by the reference,
\* not to its directory.
C4_RootRelativeAgainstOrigin ==
    \A h \in Handlers : ManifestSent(h) =>
        LET ins == InLines(h)
            outs == OutLines(h) IN
        \A i \in 1..Len(ins) :
            LET r == Trim(ins[i])
                o == outs[i]
                ar == Attrs(r)
                ao == Attrs(o)
            IN  /\ (IsMedia(r) /\ IsRootRelative(r)) =>
                       o = ProxyUrl(Origin(req[h].url) \o r)
                /\ (r = <<"/","r","/","s",".","t","s">> /\ req[h].url = <<"h","t","t","p","s",":","/","/","h","/","p","/","l",".","m","3","u","8">>) =>
                       o = <<"/","a","p","i","/","p","r","o","x","y","-","m","a","n","i","f","e","s","t","?","u","r","l","=","h","t","t","p","s","%","3","A","%","2","F","%","2","F","h","%","2","F","r","%","2","F","s",".","t","s">>
                /\ IsTag(r) =>
                       \A k \in 1..Len(ar) :
                           IsRootRelative(UriValueAt(r, ar[k])) =>
                               /\ k <= Len(ao)
                               /\ UriValueAt(o, ao[k]) =
                                      ProxyUrl(Origin(req[h].url) \o UriValueAt(r, ar[k]))

\* Root-relative references of a manifest in a directory were rewritten, one
\* as a media line, one as a URI= value.
C4_Witness ==
    \E h \in Handlers :
        /\ ManifestSent(h)
        /\ BaseUrl(req[h].url) # Origin(req[h].url) \o <<"/">>
        /\ \E i, j \in 1..Len(InLines(h)) :
               /\ IsMedia(InLines(h)[i]) /\ IsRootRelative(Trim(InLines(h)[i]))
               /\ IsTag(InLines(h)[j]) /\ Attrs(Trim(InLines(h)[j])) # <<>>
               /\ IsRootRelative(AttrValue(Trim(InLines(h)[j]), 1))
               /\ Attrs(OutLines(h)[j]) # <<>>

\* C5: in a tag line (starting with '#' once trimmed) with URI="value"
\* attributes, each value is replaced by the proxy URL of its resolution,
\* every occurrence on its own, the text of the trimmed tag around the values
\* is as it was, and the result is one line.
C5_OnlyUriValuesReplaced ==
    \A h \in Handlers : ManifestSent(h) =>
        LET ins == InLines(h)
            outs == OutLines(h) IN
        /\ Len(outs) = Len(ins)
        /\ \A i \in 1..Len(ins) :
               LET r == Trim(ins[i])
                   o == outs[i]
                   ar == Attrs(r)
                   ao == Attrs(o)
               IN  /\ (IsTag(r) /\ ar # <<>>) =>
                          /\ Len(ao) = Len(ar)
                          /\ \A k \in 1..Len(ar) :
                                 UriValueAt(o, ao[k]) =
                                     ProxyUrl(AbsoluteAttrUrl(UriValueAt(r, ar[k]), req[h].url))
                          /\ Outside(o) = Outside(r)
                   /\ (r = <<"#","K",":","M","=","A",",","U","R","I","=","\"","k",".","b","\"">> /\ req[h].url = <<"h","t","t","p","s",":","/","/","h","/","p","/","l",".","m","3","u","8">>) =>
                          o = <<"#","K",":","M","=","A",",","U","R","I","=","\"","/","a","p","i","/","p","r","o","x","y","-","m","a","n","i","f","e","s","t","?","u","r","l","=","h","t","t","p","s","%","3","A","%","2","F","%","2","F","h","%","2","F","p","%","2","F","k",".","b","\"">>

\* A tag line with two URI="value" attributes was rewritten.
C5_Witness ==
    \E h \in Handlers :
        /\ ManifestSent(h)
        /\ \E i \in 1..Len(InLines(h)) :
               /\ IsTag(InLines(h)[i])
               /\ Len(Attrs(Trim(InLines(h)[i]))) = 2
               /\ Len(Attrs(OutLines(h)[i])) = 2

\* Every line of the upstream manifest is blank or a comment.
OnlyCommentsAndBlanks(h) ==
    LET ins == InLines(h)
    IN  \A i \in 1..Len(ins) : IsBlank(ins[i]) \/ IsTag(ins[i])

\* C6, as stated: a manifest of comment lines (starting with '#') and blank
\* lines only is sent byte for byte as it came.
C6_AsStated ==
    \A h \in Handlers :
        (ManifestSent(h) /\ OnlyCommentsAndBlanks(h)) =>
            res[h].body.text = response[h].text

\* C6, amended: a manifest of blank lines and of comment lines that do not
\* contain URI=" is sent byte for byte as it came.
C6_CommentsUntouched ==
    \A h \in Handlers :
        (/\ ManifestSent(h)
         /\ OnlyCommentsAndBlanks(h)
         /\ LET ins == InLines(h)
            IN  \A i \in 1..Len(ins) : ~Includes(ins[i], UriOpen)) =>
            res[h].body.text = response[h].text

\* A manifest of a comment wrapped in white space and a line of white space
\* was sent.
C6_Witness ==
    \E h \in Handlers :
        /\ ManifestSent(h)
        /\ Len(InLines(h)) = 2
        /\ IsTag(InLines(h)[1]) /\ Trim(InLines(h)[1]) # InLines(h)[1]
        /\ ~Includes(InLines(h)[1], UriOpen)
        /\ IsBlank(InLines(h)[2]) /\ InLines(h)[2] # <<>>

(***************************************************************************)
(* Properties of the handler.                                              *)
(***************************************************************************)

\* The upstream answered with a 2xx status (206 is one of them).
Successful(h) ==
    response[h].arrived /\ response[h].status >= 200 /\ response[h].status <= 299

\* What the handler did with a successful answer agrees with the test
\* isText: it read the body as text and sent the rewriting of it, or read it
\* as bytes and sent them as they are.
ClassifiedBy(h, isText) ==
    /\ response[h].reading = (IF isText THEN "text" ELSE "buffer")
    /\ (Done(h) /\ res[h].status # 500) =>
           IF isText
           THEN /\ res[h].body.kind = "text"
                /\ res[h].body.text = RewriteManifest(response[h].text, req[h].url)
           ELSE /\ res[h].body.kind = "bytes"
                /\ res[h].body.data = response[h].bytes
                /\ res[h].contentType = response[h].contentType

\* C7, as stated: a successful answer is rewritten as a manifest if and only
\* if its Content-Type contains mpegurl or the target URL ends with .m3u8;
\* any other is forwarded as bytes.
C7_AsStated ==
    \A h \in Handlers : Successful(h) =>
        ClassifiedBy(h, \/ Includes(response[h].contentType, <<"m","p","e","g","u","r","l">>)
                        \/ EndsWith(req[h].url, <<".","m","3","u","8">>))

\* C7, amended: a successful answer is rewritten as a manifest if and only
\* if its Content-Type contains mpegurl or the target URL contains .m3u8
\* anywhere; any other is forwarded as bytes.
C7_ManifestOrBinary ==
    \A h \in Handlers : Successful(h) =>
        ClassifiedBy(h, \/ Includes(response[h].contentType, <<"m","p","e","g","u","r","l">>)
                        \/ Includes(req[h].url, <<".","m","3","u","8">>))

\* A target with a query string after .m3u8, answered with a Content-Type
\* that is not HLS, was rewritten as a manifest.
C7_Witness ==
    \E h \in Handlers :
        /\ ManifestSent(h)
        /\ ~Includes(response[h].contentType, <<"m","p","e","g","u","r","l">>)
        /\ Includes(req[h].url, <<".","m","3","u","8">>)
        /\ ~EndsWith(req[h].url, <<".","m","3","u","8">>)

\* C8: when the request carries Range and the upstream answers 206 with
\* Content-Range, the answer sent has status 206 and that Content-Range; a
\* binary answer carries the upstream's status.
C8_PartialContentForwarded ==
    \A h \in Handlers :
        /\ (/\ Done(h) /\ res[h].body.kind \in {"text", "bytes"}
            /\ req[h].range # ""
            /\ response[h].status = 206 /\ response[h].contentRange # "") =>
               /\ res[h].status = 206
               /\ res[h].contentRange = response[h].contentRange
        /\ BinarySent(h) => res[h].status = response[h].status

\* C9: a request whose url parameter is missing or empty is answered 400
\* "URL required", and no upstream fetch is issued for it.
C9_UrlRequired ==
    \A h \in Handlers :
        (~req[h].hasUrl \/ Len(req[h].url) = 0) =>
            /\ fetchLog[h] = <<>>
            /\ pc[h] \in {"start", "done"}
            /\ Done(h) =>
                   /\ res[h].status = 400
                   /\ res[h].body = [kind |-> "message", text |-> <<>>, data |-> "URL required"]
                   /\ res[h].sends = 1

\* A request with an empty url parameter was answered.
C9_Witness ==
    \E h \in Handlers : Done(h) /\ req[h].hasUrl /\ req[h].url = <<>> /\ res[h].status = 400

\* C10: an upstream status s outside 2xx is answered with status s and body
\* "Target returned s"; the upstream body is neither read nor rewritten,
\* whatever the Content-Type and the target.
C10_UpstreamStatusForwarded ==
    \A h \in Handlers :
        (response[h].arrived /\ ~(response[h].status >= 200 /\ response[h].status <= 299)) =>
            /\ Done(h)
            /\ res[h].status = response[h].status
            /\ res[h].body.kind = "message"
            /\ res[h].body.data = "Target returned " \o ToString(response[h].status)
            /\ response[h].status = 403 => res[h].body.data = "Target returned 403"
            /\ res[h].sends = 1
            /\ response[h].reading = "none"
            /\ response[h].text = <<>> /\ response[h].bytes = ""

\* The upstream answered 403 with the HLS Content-Type to a target that ends
\* with .m3u8.
C10_Witness ==
    \E h \in Handlers :
        /\ Done(h)
        /\ response[h].arrived /\ response[h].status = 403
        /\ Includes(response[h].contentType, <<"m","p","e","g","u","r","l">>)
        /\ EndsWith(req[h].url, <<".","m","3","u","8">>)
        /\ res[h].status = 403

Failed(h) ==
    /\ Done(h)
    /\ \/ fetchLog[h] # <<>> /\ ~response[h].arrived
       \/ response[h].reading \in {"text", "buffer"} /\ res[h].body.kind \notin {"text", "bytes"}

\* A failed request is answered once, with status 500 and the error's
\* message as body.
FailedIs500 ==
    \A h \in Handlers : Failed(h) =>
        /\ res[h].status = 500
        /\ res[h].sends = 1
        /\ res[h].body.kind = "message"
        /\ res[h].body.data \in {FetchFailure, InvalidUrlFailure, BodyFailure}

\* C12: a request whose fetch or whose body read failed is answered once,
\* with status 500 and the error's message as body, and the answer carries
\* nothing of the upstream's answer: none of its Content-Range, Accept-Ranges,
\* Content-Length and Content-Type, and no Cache-Control of a segment.
C12_CatchAllOnly ==
    /\ FailedIs500
    /\ \A h \in Handlers : Failed(h) =>
           /\ res[h].contentRange = ""
           /\ res[h].acceptRanges = ""
           /\ res[h].contentLength = ""
           /\ res[h].contentType = <<>>
           /\ res[h].cacheControl = ""

(***************************************************************************)
(* Properties of requests served at the same time.                         *)
(***************************************************************************)

\* The answer sent for request h is one of the four the handler has: the
\* upstream's error status forwarded, the rewritten manifest, the bytes of
\* the upstream's body, or 500 with an error message.
Terminal(h) ==
    \/ /\ response[h].arrived
       /\ ~(response[h].status >= 200 /\ response[h].status <= 299)
       /\ res[h].status = response[h].status
       /\ res[h].body = [kind |-> "message", text |-> <<>>,
                         data |-> "Target returned " \o ToString(response[h].status)]
    \/ /\ response[h].reading = "text"
       /\ res[h].body = [kind |-> "text",
                         text |-> RewriteManifest(response[h].text, req[h].url),
                         data |-> ""]
    \/ /\ response[h].reading = "buffer"
       /\ res[h].body = [kind |-> "bytes", text |-> <<>>, data |-> response[h].bytes]
    \/ /\ res[h].status = 500
       /\ res[h].body.kind = "message"
       /\ res[h].body.data \in {FetchFailure, InvalidUrlFailure, BodyFailure}

\* Request h, with a url that is not empty, has issued one GET for its url
\* from the moment it left its start, and has sent one answer, a terminal
\* one, once it is done and none before.
OneFetchOneResponse(h) ==
    (req[h].hasUrl /\ req[h].url # <<>>) =>
        /\ Len(fetchLog[h]) = (IF pc[h] = "start" THEN 0 ELSE 1)
        /\ pc[h] # "start" => fetchLog[h][1].url = req[h].url
        /\ res[h].sends = (IF Done(h) THEN 1 ELSE 0)
        /\ Done(h) => Terminal(h)

\* A step that changes anything of one request leaves the fetches, the
\* upstream answer and the response of every other request as they are.
StepOfOne ==
    \A h \in ConcurrentHandlers :
        <<pc[h], fetchLog[h], response[h], res[h]>>' # <<pc[h], fetchLog[h], response[h], res[h]>> =>
            /\ req' = req
            /\ \A g \in ConcurrentHandlers \ {h} :
                   <<pc[g], fetchLog[g], response[g], res[g]>>' = <<pc[g], fetchLog[g], response[g], res[g]>>

\* C13: every request with a url that is not empty issues exactly one
\* upstream GET, never a second, and eventually sends exactly one answer,
\* which is the forwarded error status, the rewritten manifest, the bytes or
\* 500; a request served at the same time changes neither the fetches nor
\* the answer of another.
C13_OneFetchOneTerminalResponse ==
    /\ [](\A h \in ConcurrentHandlers : OneFetchOneResponse(h))
    /\ [][StepOfOne]_vars
    /\ \A h \in ConcurrentHandlers :
           (req[h].hasUrl /\ req[h].url # <<>>) ~> (Done(h) /\ res[h].sends = 1)

\* Two requests for the same target were served at the same time: one got
\* the rewritten manifest, the other 500 after its fetch failed, each after
\* one GET.
C13_Witness ==
    /\ DOMAIN pc = ConcurrentHandlers
    /\ req[1].url = req[2].url /\ req[1].url # <<>>
    /\ Done(1) /\ Done(2)
    /\ Len(fetchLog[1]) = 1 /\ Len(fetchLog[2]) = 1
    /\ res[1].body.kind = "text" /\ res[1].sends = 1
    /\ res[2].status = 500 /\ ~response[2].arrived /\ res[2].sends = 1

(***************************************************************************)
(* Properties of the player.                                               *)
(***************************************************************************)

\* C14: a stream load started for the entry of the player, while no button
\* was pressed since that entry was given, uses the /api/proxy-manifest?url=
\* URL if and only if forceProxy is true.
C14_NewChannelLoadsByForceProxy ==
    (player.lastLoad # NeverLoaded /\ ~player.lastLoad.afterPress) =>
        (StartsWith(player.lastLoad.url, ProxyPrefix) <=> player.lastLoad.forceProxy)

====
